---------------------------- MODULE Spec2Model ----------------------------
(***************************************************************************)
(* Model of programs/convert_ncbi_refseq_genbank_chromosomes.py: load the  *)
(* NCBI conversion table into a dict, then rewrite column 0 of a GFF3 file *)
(* line by line.                                                           *)
(*                                                                         *)
(* A Python str is a sequence of symbols.  "#", "\t" and "\n" are the      *)
(* characters; "gff", "NC", "CM" and "x" stand for runs of ordinary        *)
(* characters (a RefSeq accession, a GenBank accession, other text).       *)
(*                                                                         *)
(* The script reads the global `args` at line 20; the model binds it to    *)
(* the result of parse_args() (lines 10-16) in the action ParseArgs.       *)
(***************************************************************************)
EXTENDS Naturals, Sequences, FiniteSets, TLC

-----------------------------------------------------------------------------
(* Bounds *)

\* longest conversion table (rows, comment rows included)
MaxTableRows == 2

\* longest input GFF3 file (lines)
MaxLines == 2

-----------------------------------------------------------------------------
(* Characters and strings *)

HASH == "#"
TAB == "\t"
NL == "\n"

NC == <<"NC">>
CM == <<"CM">>
X == <<"x">>

\* the float nan pandas stores for an empty cell; no str equals it
NaN == <<"nan">>

IsStr(v) == v # NaN

\* str.startswith
StartsWith(s, p) ==
    /\ Len(s) >= Len(p)
    /\ SubSeq(s, 1, Len(p)) = p

GffToken == <<HASH, HASH, "gff">>
CommentToken == <<HASH>>

Front(s) == SubSeq(s, 1, Len(s) - 1)
Last(s) == s[Len(s)]

\* str.split(sep): cut at every sep; n separators give n+1 fields
RECURSIVE Split(_, _)
Split(s, sep) ==
    IF s = <<>> THEN << <<>> >>
    ELSE LET rest == Split(Tail(s), sep)
         IN  IF Head(s) = sep
             THEN << <<>> >> \o rest
             ELSE << <<Head(s)>> \o Head(rest) >> \o Tail(rest)

\* sep.join(fields)
RECURSIVE Join(_, _)
Join(fields, sep) ==
    IF fields = <<>> THEN <<>>
    ELSE IF Len(fields) = 1 THEN fields[1]
    ELSE fields[1] \o <<sep>> \o Join(Tail(fields), sep)

-----------------------------------------------------------------------------
(* The conversion table and pandas.read_csv(sep='\t', comment='#') *)

\* the column names assigned at line 21
header ==
    << "Sequence-Name", "Sequence-Role", "Assigned-Molecule",
       "Assigned-Molecule-Location/Type", "GenBank-Accn", "Relationship",
       "RefSeq-Accn", "Assembly-Unit", "Sequence-Length", "UCSC-style-name" >>

ColumnPos(name) == CHOOSE i \in 1..Len(header) : header[i] = name

\* a comment line of the table file
CommentRow == [comment |-> TRUE, cells |-> <<>>]

\* a table line of n tab-separated cells with gb and rs at the positions of
\* the GenBank-Accn and RefSeq-Accn columns
MkRow(gb, rs, n) ==
    [ comment |-> FALSE,
      cells |-> [ i \in 1..n |->
                    IF i = ColumnPos("GenBank-Accn") THEN gb
                    ELSE IF i = ColumnPos("RefSeq-Accn") THEN rs
                    ELSE X ] ]

\* the (GenBank-Accn, RefSeq-Accn) cells a full-width row may carry; <<>> is
\* an empty cell
CellPairs ==
    { <<CM, NC>>, <<X, NC>>, <<<<>>, NC>>, <<CM, <<>> >> }

\* the widths of malformed rows: one cell short, one cell long
BadWidths == { Len(header) - 1, Len(header) + 1 }

TableRows ==
    {CommentRow}
    \cup { MkRow(p[1], p[2], Len(header)) : p \in CellPairs }
    \cup { MkRow(CM, NC, n) : n \in BadWidths }

RECURSIVE SeqsUpTo(_, _)
SeqsUpTo(S, n) ==
    IF n = 0 THEN { <<>> }
    ELSE LET shorter == SeqsUpTo(S, n - 1)
         IN  shorter \cup { Append(q, e) : q \in { r \in shorter : Len(r) = n - 1 }, e \in S }

Tables == SeqsUpTo(TableRows, MaxTableRows)

Max(a, b) == IF a >= b THEN a ELSE b

\* an empty cell is read as nan, any other cell as the str it holds
CellValue(c) == IF c = <<>> THEN NaN ELSE c

\* a short line is filled with empty trailing cells up to width w
PadRow(cells, w) ==
    [ i \in 1..w |-> IF i <= Len(cells) THEN cells[i] ELSE <<>> ]

\* pandas.read_csv with header=0 and no index_col: comment lines are
\* skipped, the first remaining line is consumed as the header row, the
\* first data line fixes the width (surplus leading columns become the
\* index), later lines are padded when short and rejected when long
ReadCsv(t) ==
    LET lines == SelectSeq(t, LAMBDA r : ~r.comment)
    IN  IF lines = <<>>
        THEN [ err |-> "EmptyDataError", ncols |-> 0, rows |-> <<>> ]
        ELSE
          LET ncols == Len(lines[1].cells)
              data == Tail(lines)
              width == IF data = <<>> THEN ncols
                       ELSE Max(ncols, Len(data[1].cells))
              lead == width - ncols
          IN  IF \E i \in 1..Len(data) : Len(data[i].cells) > width
              THEN [ err |-> "ParserError", ncols |-> ncols, rows |-> <<>> ]
              ELSE [ err |-> "",
                     ncols |-> ncols,
                     rows |-> [ i \in 1..Len(data) |->
                                 LET padded == PadRow(data[i].cells, width)
                                 IN  [ j \in 1..ncols |-> CellValue(padded[j + lead]) ] ] ]

\* df.columns = header raises ValueError on a length mismatch
RelabelFails(df) == df.ncols # Len(header)

\* df[name] after the relabelling
Column(df, name) == [ i \in 1..Len(df.rows) |-> df.rows[i][ColumnPos(name)] ]

EmptyDict == [ k \in {} |-> <<>> ]

\* dict(zip(keys, values)): a later pair overrides an earlier one
RECURSIVE DictZip(_, _)
DictZip(keys, values) ==
    IF keys = <<>> \/ values = <<>> THEN EmptyDict
    ELSE LET d == DictZip(Front(keys), Front(values))
             k == Last(keys)
         IN  [ x \in DOMAIN d \cup {k} |-> IF x = k THEN Last(values) ELSE d[x] ]

\* lines 22-25
BuildMapping(df, refseq_to_genbank) ==
    IF refseq_to_genbank
    THEN DictZip(Column(df, "RefSeq-Accn"), Column(df, "GenBank-Accn"))
    ELSE DictZip(Column(df, "GenBank-Accn"), Column(df, "RefSeq-Accn"))

-----------------------------------------------------------------------------
(* parse_args *)

\* the value given to --refseq-to-genbank on the command line; <<>> when
\* the option is omitted, <<s>> when it is given the text s
OptionValues == { <<>>, <<"True">>, <<"False">>, <<"">> }

\* argparse type=bool: bool(s), true of every non-empty text
ParseBool(s) == s # ""

\* default=True when the option is omitted
ParseOption(opt) == IF opt = <<>> THEN TRUE ELSE ParseBool(opt[1])

-----------------------------------------------------------------------------
(* The input GFF3 file *)

\* the lines an input file is made of; a line without "\n" can only be the
\* last line of its file
Lines ==
    { <<HASH, HASH, "gff", NL>>,                \* ##gff-version 3
      <<HASH, HASH, "gff", TAB, "x", NL>>,      \* a ##gff line holding a tab
      <<HASH, "x", NL>>,                        \* #comment
      <<HASH, HASH, "NC", TAB, "x", NL>>,       \* ##sequence-region NC ...
      <<"NC", TAB, "x", NL>>,                   \* a RefSeq record
      <<"CM", TAB, "x", NL>>,                   \* a GenBank record
      <<"NC", TAB, "NC", TAB, NL>>,             \* accession repeated, empty last field
      <<TAB, "x", NL>>,                         \* empty field 0
      <<"NC", NL>>,                             \* one field, newline inside it
      <<"NC">>,                                 \* one field, no newline
      <<"CM", TAB, "x">> }                      \* last line without newline

IsGffLine(line) == StartsWith(line, GffToken)

IsCommentLine(line) == ~IsGffLine(line) /\ StartsWith(line, CommentToken)

IsRecordLine(line) == ~StartsWith(line, CommentToken)

-----------------------------------------------------------------------------
(* The body of the loop, lines 28-37 *)

\* Substitute gone wrong: every field that is a key is replaced
SubstituteAll(mm, row) ==
    [ i \in 1..Len(row) |-> IF row[i] \in DOMAIN mm THEN mm[row[i]] ELSE row[i] ]

\* lines 33-34: field 0 replaced by its mapped value when it is a key
Substitute(mm, row) ==
    IF row[1] \in DOMAIN mm THEN [row EXCEPT ![1] = mm[row[1]]] ELSE row

\* Skipped gone wrong: only a single leading # marks a comment
SkippedSingleHash(line) ==
    ~StartsWith(line, <<HASH, HASH>>) /\ StartsWith(line, CommentToken)

\* lines 28-31: whether the iteration ends at `continue`
Skipped(line) == ~StartsWith(line, GffToken) /\ StartsWith(line, CommentToken)

\* line 37: '\t'.join raises TypeError when field 0 became a float
JoinRaises(mm, line) ==
    /\ ~Skipped(line)
    /\ ~IsStr(Substitute(mm, Split(line, TAB))[1])

\* LineWrites gone wrong: the final write sits in the mapped branch only
LineWritesDropUnmapped(mm, line) ==
    LET first == IF StartsWith(line, GffToken) THEN <<line>> ELSE <<>>
    IN  IF \/ Skipped(line)
           \/ JoinRaises(mm, line)
           \/ Split(line, TAB)[1] \notin DOMAIN mm
        THEN first
        ELSE Append(first, Join(Substitute(mm, Split(line, TAB)), TAB))

\* the strings the iteration hands to fh.write, in order (lines 29 and 37)
LineWrites(mm, line) ==
    LET first == IF StartsWith(line, GffToken) THEN <<line>> ELSE <<>>
    IN  IF Skipped(line) \/ JoinRaises(mm, line) THEN first
        ELSE Append(first, Join(Substitute(mm, Split(line, TAB)), TAB))

\* the rows the iteration prints as 'Row unparseable' (line 36)
LinePrints(mm, line) ==
    IF Skipped(line) \/ Split(line, TAB)[1] \in DOMAIN mm THEN <<>>
    ELSE << Split(line, TAB) >>

-----------------------------------------------------------------------------
(* State *)

VARIABLES
    pc,         \* "start", "load", "loop", "done", "failed"
    option,     \* the --refseq-to-genbank value on the command line
    args,       \* the namespace parse_args returns
    table,      \* the conversion table file
    m,          \* the mapping dict
    inp,        \* the lines of the input file read so far
    out,        \* the lines written to the output file
    log,        \* the rows printed to standard output
    exit        \* <<>> while running, <<code>> once the process has ended

vars == <<pc, option, args, table, m, inp, out, log, exit>>

Init ==
    /\ pc = "start"
    /\ option \in OptionValues
    /\ args = [refseq_to_genbank |-> TRUE]
    /\ table \in Tables
    /\ m = EmptyDict
    /\ inp = <<>>
    /\ out = <<>>
    /\ log = <<>>
    /\ exit = <<>>

\* lines 10-16
ParseArgs ==
    /\ pc = "start"
    /\ args' = [refseq_to_genbank |-> ParseOption(option)]
    /\ pc' = "load"
    /\ UNCHANGED <<option, table, m, inp, out, log, exit>>

\* lines 20-26: read the table, relabel its columns, build the dict and
\* open the output file; an exception of pandas ends the process
LoadTable ==
    /\ pc = "load"
    /\ LET df == ReadCsv(table)
       IN  IF df.err # "" \/ RelabelFails(df)
           THEN /\ pc' = "failed"
                /\ exit' = <<1>>
                /\ m' = m
           ELSE /\ pc' = "loop"
                /\ exit' = exit
                /\ m' = BuildMapping(df, args.refseq_to_genbank)
    /\ UNCHANGED <<option, args, table, inp, out, log>>

\* the file iterator yields a next line only after a line ended by "\n"
MoreInput ==
    /\ Len(inp) < MaxLines
    /\ inp # <<>> => Last(Last(inp)) = NL

\* ProcessLine gone wrong: the output file is reopened in mode 'w' inside
\* the loop, so each iteration truncates it
ProcessLineReopen ==
    /\ pc = "loop"
    /\ MoreInput
    /\ \E line \in Lines :
        /\ inp' = Append(inp, line)
        /\ out' = LineWrites(m, line)
        /\ log' = log \o LinePrints(m, line)
        /\ IF JoinRaises(m, line)
           THEN pc' = "failed" /\ exit' = <<1>>
           ELSE pc' = pc /\ exit' = exit
    /\ UNCHANGED <<option, args, table, m>>

\* one iteration of the loop, lines 27-37
ProcessLine ==
    /\ pc = "loop"
    /\ MoreInput
    /\ \E line \in Lines :
        /\ inp' = Append(inp, line)
        /\ out' = out \o LineWrites(m, line)
        /\ log' = log \o LinePrints(m, line)
        /\ IF JoinRaises(m, line)
           THEN pc' = "failed" /\ exit' = <<1>>
           ELSE pc' = pc /\ exit' = exit
    /\ UNCHANGED <<option, args, table, m>>

\* the input is exhausted: the output file is closed and the script ends
Finish ==
    /\ pc = "loop"
    /\ pc' = "done"
    /\ exit' = <<0>>
    /\ UNCHANGED <<option, args, table, m, inp, out, log>>

Next == ParseArgs \/ LoadTable \/ ProcessLine \/ Finish

Spec == Init /\ [][Next]_vars

-----------------------------------------------------------------------------
(* Vocabulary of the properties *)

\* the dict has been built and the loop entered
Loaded == pc \in {"loop", "done"}

\* the table has a header line and every non-comment line has 10 cells
WellFormedTable ==
    /\ \E i \in 1..Len(table) : ~table[i].comment
    /\ \A i \in 1..Len(table) :
         ~table[i].comment => Len(table[i].cells) = Len(header)

KeyColumn == IF args.refseq_to_genbank THEN "RefSeq-Accn" ELSE "GenBank-Accn"

ValueColumn == IF args.refseq_to_genbank THEN "GenBank-Accn" ELSE "RefSeq-Accn"

\* the lines whose iteration ran to its end: all lines read, but for the
\* line on which the process died
Processed == IF pc = "failed" /\ inp # <<>> THEN Front(inp) ELSE inp

IsPrefix(s, t) == Len(s) <= Len(t) /\ SubSeq(t, 1, Len(s)) = s

-----------------------------------------------------------------------------
(* C1 *)

\* C1: the ##gff lines of the output are exactly the ##gff lines of the
\* input, once each and in order.
C1_GffLinesCopiedOnce ==
    SelectSeq(out, IsGffLine) = SelectSeq(inp, IsGffLine)

-----------------------------------------------------------------------------
(* C2 *)

\* C2: once the table is loaded, every non-comment row with a non-empty key
\* cell (the first row included) has its key in the mapping, mapped to the
\* value cell of the last non-comment row carrying that key.
C2_EveryRowKeyMapped ==
    (Loaded /\ WellFormedTable) =>
        \A i \in 1..Len(table) :
            LET k == IF table[i].comment THEN <<>>
                     ELSE table[i].cells[ColumnPos(KeyColumn)]
                same == { j \in 1..Len(table) :
                            /\ ~table[j].comment
                            /\ table[j].cells[ColumnPos(KeyColumn)] = k }
                last == CHOOSE j \in same : \A j2 \in same : j2 <= j
            IN  k # <<>> =>
                    /\ k \in DOMAIN m
                    /\ m[k] = CellValue(table[last].cells[ColumnPos(ValueColumn)])

-----------------------------------------------------------------------------
(* C3 *)

\* what the user asks for: RefSeq -> GenBank when the option is omitted or
\* given True, GenBank -> RefSeq when it is given False
AsksRefseqToGenbank == option \in { <<>>, <<"True">> }

AsksGenbankToRefseq == option = <<"False">>

\* C3: the mapping's keys are the RefSeq-Accn column and its values the
\* GenBank-Accn column when the option is omitted or true, and the reverse
\* when the user supplies False.
C3_DirectionFollowsOption ==
    Loaded =>
        /\ AsksRefseqToGenbank =>
             m = DictZip(Column(ReadCsv(table), "RefSeq-Accn"),
                         Column(ReadCsv(table), "GenBank-Accn"))
        /\ AsksGenbankToRefseq =>
             m = DictZip(Column(ReadCsv(table), "GenBank-Accn"),
                         Column(ReadCsv(table), "RefSeq-Accn"))

-----------------------------------------------------------------------------
(* C4 *)

-----------------------------------------------------------------------------
(* C5 *)

-----------------------------------------------------------------------------
(* C6 *)

\* C6: no line beginning with # but not with ##gff is ever in the output.
C6_NoCommentInOutput ==
    \A i \in 1..Len(out) : ~IsCommentLine(out[i])

\* a ## directive other than ##gff was read and dropped, a record written
C6_Witness ==
    /\ inp = << <<HASH, HASH, "NC", TAB, "x", NL>>, <<"CM", TAB, "x", NL>> >>
    /\ Len(out) = 1

-----------------------------------------------------------------------------
(* C7 *)

\* C7: with a well-formed 10-column table the run never ends with a
\* non-zero exit code, whatever the input records are.
C7_ValidRunExitsZero ==
    WellFormedTable => exit \in { <<>>, <<0>> }

-----------------------------------------------------------------------------
(* C8 *)

\* C8: a table holding a non-comment row that has not exactly 10 cells
\* never gets its mapping built: the run aborts instead.
C8_BadWidthAborts ==
    ( \E i \in 1..Len(table) :
        ~table[i].comment /\ Len(table[i].cells) # Len(header) )
    => ~Loaded

-----------------------------------------------------------------------------
(* C9 *)

\* C9: every diagnostic is for a record (a line that does not begin with #)
\* whose field 0 is not a key of the mapping.
C9_DiagnosticsOnlyForRecords ==
    \A i \in 1..Len(log) :
        /\ IsRecordLine(Join(log[i], TAB))
        /\ log[i][1] \notin DOMAIN m

-----------------------------------------------------------------------------
(* C10 *)

\* the output line o is the line of record l: same fields 1..N, field 0
\* kept or mapped
LineOf(l, o) ==
    LET fin == Split(l, TAB)
        fout == Split(o, TAB)
    IN  /\ Tail(fout) = Tail(fin)
        /\ fout[1] = (IF fin[1] \in DOMAIN m THEN m[fin[1]] ELSE fin[1])

\* C10: at every point the record lines of the output are, one for one and
\* in order, the lines of the records processed so far, and a step only
\* appends to the output.
C10_RecordsOnceInOrder ==
    /\ [] ( LET recsIn == SelectSeq(Processed, IsRecordLine)
                recsOut == SelectSeq(out, IsRecordLine)
            IN  /\ Len(recsOut) = Len(recsIn)
                /\ \A i \in 1..Len(recsIn) : LineOf(recsIn[i], recsOut[i]) )
    /\ [][ IsPrefix(out, out') ]_vars

\* a mapped record and then an unmapped last record were written
C10_Witness ==
    /\ NC \in DOMAIN m
    /\ CM \notin DOMAIN m
    /\ inp = << <<"NC", TAB, "x", NL>>, <<"CM", TAB, "x">> >>
    /\ out = << m[NC] \o <<TAB, "x", NL>>, <<"CM", TAB, "x">> >>

=============================================================================
